---- MODULE Spec2Model ----
(***************************************************************************)
(* Model of the AArch64 memory-management backend of the hypervisor        *)
(* (src/src/arch/aarch64/mm.c): MMU bring-up, the level/root-count oracle, *)
(* the attribute translator and combiner, data-cache write-back, and the   *)
(* exception trampoline macros that follow it in the same file.            *)
(*                                                                         *)
(* 64-bit words are modelled as the set of their set bit positions, so     *)
(* that `|` is set union, `& ~m` is set difference and a field is read     *)
(* back by decoding the bits it occupies.                                  *)
(***************************************************************************)
EXTENDS Integers, Sequences, FiniteSets, TLC

(***************************************************************************)
(* Bounds of the model.                                                    *)
(***************************************************************************)
\* Number of cores that run bring-up.
NCores == 2

\* Width of an address in the cache-maintenance model: addresses wrap
\* modulo 2^AddrBits as uintptr_t wraps modulo 2^64.
AddrBits == 4

\* Largest length passed to arch_mm_write_back_dcache.
MaxSize == 3

\* Largest value of the cache type register's line-size field.
MaxLineShift == 2

\* Number of trampoline frames the exception stack has room for, each with
\* the handler's own use of the stack.
StackFrames == 2

\* Initial register files tried: one per seed in 0..MaxSeed.
MaxSeed == 1

\* Longest path of ancestors a leaf's attributes are combined with.
MaxPath == 2

(***************************************************************************)
(* Words as bit sets.                                                      *)
(***************************************************************************)
\* The bits of a small non-negative integer.
BitsOf(v) == {i \in 0..15 : (v \div (2 ^ i)) % 2 = 1}

\* (v) << n
Shl(v, n) == {i + n : i \in BitsOf(v)}

\* (w) << n for a word w
ShlW(w, n) == {i + n : i \in w}

\* The unsigned value of bits lo..hi of word w: (w >> lo) & (2^(hi-lo+1) - 1).
RECURSIVE Field(_, _, _)
Field(w, lo, hi) ==
    IF lo > hi THEN 0
    ELSE (IF lo \in w THEN 1 ELSE 0) + 2 * Field(w, lo + 1, hi)

(***************************************************************************)
(* Constants of mm.c and of the headers it includes.                       *)
(***************************************************************************)
PAGE_BITS == 12
PAGE_LEVEL_BITS == 9

\* static const int pa_bits_table[16] = {32, 36, 40, 42, 44, 48};
\* the entries the initialiser leaves out are zero.
pa_bits_table == <<32, 36, 40, 42, 44, 48, 0, 0, 0, 0, 0, 0, 0, 0, 0, 0>>

\* The flags of a mode the code tests.
ModeFlags == {"R", "W", "X", "D", "STAGE1"}

(***************************************************************************)
(* State.                                                                  *)
(***************************************************************************)
VARIABLES
    \* Hardware: the feature register every core reads, and the shared
    \* root table handed to bring-up.
    id_aa64mmfr0_el1,
    hyp_table,
    \* The two file-scope globals.
    mm_s2_max_level,
    mm_s2_root_table_count,
    \* Per core: position in arch_mm_init, its locals, its system
    \* registers, the events it has issued in program order, its result.
    mm_pc,
    mm_local,
    sysreg,
    mm_events,
    mm_ret

VARIABLES
    \* The core that takes exceptions: x0..x30, the exception link and saved
    \* state registers, both stack pointers, the stack selector and the
    \* condition flags of PSTATE, the program counter and the exception
    \* stack.
    x,
    elr,
    spsr,
    sp_el0,
    sp_elx,
    spsel,
    nzcv,
    tpc,
    mem,
    \* History: one record per exception taken and not yet returned from,
    \* outermost first, holding the state at the moment it was taken.
    ctx

VARIABLES
    \* arch_mm_write_back_dcache: the cache type register, the arguments,
    \* the locals, the position, and the maintenance operations issued.
    ctr_el0,
    wb_base,
    wb_size,
    wb_pc,
    line_begin,
    wb_end,
    dc_ops,
    dsb_count

VARIABLES
    \* The attribute translator and combiner as the page-table code uses
    \* them: the mode translated last, the leaf attributes being built, the
    \* arguments of the last combine call, and the history of the path (the
    \* attributes the leaf started with, the table attributes applied so
    \* far, how many).
    pt_mode,
    block_attrs,
    table_attrs,
    prev_attrs,
    leaf0,
    path

VARIABLES
    \* Callers of the translator while the cores are brought up: the mode
    \* they translate, every word a call has returned for it so far, and the
    \* values mm_s2_max_level had when the calls were made.
    caller_mode,
    caller_words,
    caller_levels

mmVars == <<id_aa64mmfr0_el1, hyp_table, mm_s2_max_level,
            mm_s2_root_table_count, mm_pc, mm_local, sysreg, mm_events,
            mm_ret>>

trampVars == <<x, elr, spsr, sp_el0, sp_elx, spsel, nzcv, tpc, mem, ctx>>

cacheVars == <<ctr_el0, wb_base, wb_size, wb_pc, line_begin, wb_end, dc_ops,
               dsb_count>>

attrVars == <<pt_mode, block_attrs, table_attrs, prev_attrs, leaf0, path>>

callerVars == <<caller_mode, caller_words, caller_levels>>

vars == <<mmVars, trampVars, cacheVars, attrVars, callerVars>>

Cores == 1..NCores

\* Granule-field and other-field values the feature register is drawn from.
GranuleValues == {0, 15}
OtherFieldValues == {0, 1}
\* Physical addresses of root tables: page-aligned.
Tables == {Shl(1, 12), Shl(2, 12)}

FeatureValues ==
    {Shl(pa, 0) \cup Shl(o, 4) \cup Shl(g, 28) :
        pa \in 0..15, o \in OtherFieldValues, g \in GranuleValues}

SysRegs == {"vtcr_el2", "mair_el2", "ttbr0_el2", "tcr_el2", "sctlr_el2"}

NoLocal == [pa_bits |-> 0, sl0 |-> 0, extend_bits |-> 0, first |-> FALSE]

(***************************************************************************)
(* arch_mm_init: the computations.                                         *)
(***************************************************************************)
\* (features >> 28) & 0xf
GranuleField(features) == Field(features, 28, 31)

\* features & 0xf
PaRangeField(features) == Field(features, 0, 3)

\* pa_bits_table[features & 0xf]
PaBits(features) == pa_bits_table[PaRangeField(features) + 1]

\* if ((features >> 28) & 0xf) return false;
GranuleUnsupportedNeverMutant(features) == FALSE
GranuleUnsupported(features) == GranuleField(features) # 0

\* if (!pa_bits) return false;
PaRangeUnsupported(pa_bits) == pa_bits = 0

\* The if/else-if/else chain choosing sl0 and mm_s2_max_level.
Sl0For(pa_bits) ==
    IF pa_bits >= 44 THEN 2 ELSE IF pa_bits >= 35 THEN 1 ELSE 0

MaxLevelForFourLevelsMutant(pa_bits) == Sl0For(pa_bits) + 2
MaxLevelFor(pa_bits) ==
    IF pa_bits >= 44 THEN 3 ELSE IF pa_bits >= 35 THEN 2 ELSE 1

\* extend_bits = (pa_bits - PAGE_BITS) % PAGE_LEVEL_BITS;
\* if (extend_bits > 4) extend_bits = 0;
ExtendBitsNoClampMutant(pa_bits) == (pa_bits - PAGE_BITS) % PAGE_LEVEL_BITS
ExtendBits(pa_bits) ==
    LET e == (pa_bits - PAGE_BITS) % PAGE_LEVEL_BITS
    IN IF e > 4 THEN 0 ELSE e

\* The value written to vtcr_el2.
VtcrValueT0szWidthMutant(features, sl0, pa_bits) ==
    Shl(1, 31) \cup Shl(PaRangeField(features), 16) \cup Shl(0, 14)
    \cup Shl(3, 12) \cup Shl(1, 10) \cup Shl(1, 8) \cup Shl(sl0, 6)
    \cup Shl(pa_bits, 0)
VtcrValue(features, sl0, pa_bits) ==
    Shl(1, 31) \cup Shl(PaRangeField(features), 16) \cup Shl(0, 14)
    \cup Shl(3, 12) \cup Shl(1, 10) \cup Shl(1, 8) \cup Shl(sl0, 6)
    \cup Shl(64 - pa_bits, 0)

\* The value written to mair_el2.
MairValue == Shl(0, 8 * 0) \cup Shl(255, 8 * 1)

\* The value written to tcr_el2.
TcrValue(features) ==
    Shl(1, 20) \cup Shl(PaRangeField(features), 16) \cup Shl(0, 14)
    \cup Shl(3, 12) \cup Shl(1, 10) \cup Shl(1, 8) \cup Shl(25, 0)

\* The value written to sctlr_el2; bit 0 is M, the MMU enable.
SctlrValue ==
    Shl(1, 0) \cup Shl(1, 1) \cup Shl(1, 2) \cup Shl(1, 3) \cup Shl(3, 4)
    \cup Shl(1, 11) \cup Shl(1, 12) \cup Shl(1, 16) \cup Shl(1, 18)
    \cup Shl(1, 19) \cup Shl(3, 22) \cup Shl(3, 28)

\* Program order of the register writes and barriers that end arch_mm_init.
InitOrderEarlyEnableMutant ==
    <<"vtcr", "mair", "ttbr0", "sctlr", "tcr", "dsb", "isb", "isb2">>
InitOrder ==
    <<"vtcr", "mair", "ttbr0", "tcr", "dsb", "isb", "sctlr", "isb2">>

\* The step after the one labelled l ("return" after the last).
NextLabel(l) ==
    LET i == CHOOSE k \in 1..Len(InitOrder) : InitOrder[k] = l
    IN IF i = Len(InitOrder) THEN "return" ELSE InitOrder[i + 1]

(***************************************************************************)
(* The level/root-count oracle.                                            *)
(***************************************************************************)
arch_mm_max_levelIgnoresStageMutant(mode) == mm_s2_max_level
arch_mm_max_level(mode) ==
    IF "STAGE1" \in mode THEN 2 ELSE mm_s2_max_level

arch_mm_root_table_count(mode) ==
    IF "STAGE1" \in mode THEN 1 ELSE mm_s2_root_table_count

(***************************************************************************)
(* Attribute encodings (the macros at the head of mm.c).                   *)
(***************************************************************************)
NON_SHAREABLE == 0
OUTER_SHAREABLE == 2
INNER_SHAREABLE == 3

STAGE1_XN == Shl(1, 54)
STAGE1_PXN == Shl(1, 53)
STAGE1_AF == Shl(1, 10)
STAGE1_SH(v) == Shl(v, 8)
STAGE1_AP2 == Shl(1, 7)
STAGE1_AP1 == Shl(1, 6)
STAGE1_AP(v) == Shl(v, 6)
STAGE1_NS == Shl(1, 5)
STAGE1_ATTRINDX(v) == Shl(v, 2)

STAGE1_READONLY == 2
STAGE1_READWRITE == 0

STAGE1_DEVICEINDX == 0
STAGE1_NORMALINDX == 1

STAGE2_XN(v) == Shl(v, 53)
STAGE2_AF == Shl(1, 10)
STAGE2_SH(v) == Shl(v, 8)
STAGE2_S2AP(w) == ShlW(w, 6)

STAGE2_EXECUTE_ALL == 0
STAGE2_EXECUTE_NONE == 2

TABLE_NSTABLE == Shl(1, 63)
TABLE_APTABLE1 == Shl(1, 62)
TABLE_APTABLE0 == Shl(1, 61)
TABLE_XNTABLE == Shl(1, 60)
TABLE_PXNTABLE == Shl(1, 59)

STAGE2_WRITEBACK == 3

STAGE2_MEMATTR_NORMAL(outer, inner) ==
    ShlW(Shl(outer, 2) \cup BitsOf(inner), 2)

STAGE2_MEMATTR_DEVICE_GRE == Shl(3, 2)

STAGE2_ACCESS_READ == 1
STAGE2_ACCESS_WRITE == 2

(***************************************************************************)
(* arch_mm_mode_to_attrs.                                                  *)
(***************************************************************************)
\* The branch taken when the mode has MM_MODE_STAGE1.
Stage1AttrsInnerShareableMutant(m) ==
    STAGE1_AF \cup STAGE1_SH(INNER_SHAREABLE)
    \cup (IF "X" \notin m THEN STAGE1_XN ELSE {})
    \cup (IF "W" \in m THEN STAGE1_AP(STAGE1_READWRITE)
                       ELSE STAGE1_AP(STAGE1_READONLY))
    \cup (IF "D" \in m THEN STAGE1_ATTRINDX(STAGE1_DEVICEINDX)
                       ELSE STAGE1_ATTRINDX(STAGE1_NORMALINDX))
Stage1Attrs(m) ==
    STAGE1_AF \cup STAGE1_SH(OUTER_SHAREABLE)
    \cup (IF "X" \notin m THEN STAGE1_XN ELSE {})
    \cup (IF "W" \in m THEN STAGE1_AP(STAGE1_READWRITE)
                       ELSE STAGE1_AP(STAGE1_READONLY))
    \cup (IF "D" \in m THEN STAGE1_ATTRINDX(STAGE1_DEVICEINDX)
                       ELSE STAGE1_ATTRINDX(STAGE1_NORMALINDX))

\* The branch taken otherwise.
Stage2AttrsSwappedAccessMutant(m) ==
    LET access == (IF "R" \in m THEN BitsOf(STAGE2_ACCESS_WRITE) ELSE {})
                  \cup (IF "W" \in m THEN BitsOf(STAGE2_ACCESS_READ) ELSE {})
    IN STAGE2_AF \cup STAGE2_SH(NON_SHAREABLE)
       \cup STAGE2_S2AP(access)
       \cup (IF "X" \in m THEN STAGE2_XN(STAGE2_EXECUTE_ALL)
                          ELSE STAGE2_XN(STAGE2_EXECUTE_NONE))
       \cup (IF "D" \in m
             THEN STAGE2_MEMATTR_DEVICE_GRE
             ELSE STAGE2_MEMATTR_NORMAL(STAGE2_WRITEBACK, STAGE2_WRITEBACK))
Stage2Attrs(m) ==
    LET access == (IF "R" \in m THEN BitsOf(STAGE2_ACCESS_READ) ELSE {})
                  \cup (IF "W" \in m THEN BitsOf(STAGE2_ACCESS_WRITE) ELSE {})
    IN STAGE2_AF \cup STAGE2_SH(NON_SHAREABLE)
       \cup STAGE2_S2AP(access)
       \cup (IF "X" \in m THEN STAGE2_XN(STAGE2_EXECUTE_ALL)
                          ELSE STAGE2_XN(STAGE2_EXECUTE_NONE))
       \cup (IF "D" \in m
             THEN STAGE2_MEMATTR_DEVICE_GRE
             ELSE STAGE2_MEMATTR_NORMAL(STAGE2_WRITEBACK, STAGE2_WRITEBACK))

arch_mm_mode_to_attrsReadsGeometryMutant(m) ==
    IF "STAGE1" \in m THEN Stage1Attrs(m)
    ELSE IF mm_s2_max_level = 0 THEN {} ELSE Stage2Attrs(m)
arch_mm_mode_to_attrs(m) ==
    IF "STAGE1" \in m THEN Stage1Attrs(m) ELSE Stage2Attrs(m)

(***************************************************************************)
(* arch_mm_combine_table_entry_attrs: its five statements, in order.       *)
(***************************************************************************)
\* table_attrs & BIT
Has(attrs, bit) == attrs \cap bit # {}

CombineNsToggleMutant(t, b) ==
    IF Has(t, TABLE_NSTABLE) THEN (b \ STAGE1_NS) \cup (STAGE1_NS \ b) ELSE b
CombineNs(t, b) == IF Has(t, TABLE_NSTABLE) THEN b \cup STAGE1_NS ELSE b

CombineAp2(t, b) == IF Has(t, TABLE_APTABLE1) THEN b \cup STAGE1_AP2 ELSE b

CombineAp1KeepMutant(t, b) ==
    IF Has(t, TABLE_APTABLE0) THEN b \cap STAGE1_AP1 ELSE b
CombineAp1(t, b) == IF Has(t, TABLE_APTABLE0) THEN b \ STAGE1_AP1 ELSE b

CombineXnOverwriteMutant(t, b) ==
    IF Has(t, TABLE_XNTABLE) THEN b \cup STAGE1_XN ELSE b \ STAGE1_XN
CombineXn(t, b) == IF Has(t, TABLE_XNTABLE) THEN b \cup STAGE1_XN ELSE b

CombinePxnAlwaysMutant(t, b) == b \cup STAGE1_PXN
CombinePxn(t, b) == IF Has(t, TABLE_PXNTABLE) THEN b \cup STAGE1_PXN ELSE b

arch_mm_combine_table_entry_attrs(t, b) ==
    CombinePxn(t, CombineXn(t, CombineAp1(t, CombineAp2(t, CombineNs(t, b)))))

(***************************************************************************)
(* The translator and the combiner as the page-table code drives them: a   *)
(* leaf's attributes come from a mode or are already in a descriptor, and  *)
(* are then combined with the table attributes of one ancestor per call.   *)
(***************************************************************************)
Modes == SUBSET ModeFlags

\* Attribute words of table descriptors: every choice of the override bits,
\* and a descriptor with none of them whose low type bits are set.
TableWords == SUBSET (59..63) \cup {{0, 1}}

\* Attribute words of leaves: every choice of the bits the combiner can
\* touch, and of the access flag, which it does not.
LeafWords == SUBSET {5, 6, 7, 10, 53, 54}

NoPath == [seen |-> {}, n |-> 0, from_mode |-> FALSE]

AttrInit ==
    /\ pt_mode = {}
    /\ block_attrs \in LeafWords
    /\ leaf0 = block_attrs
    /\ prev_attrs = block_attrs
    /\ table_attrs = {}
    /\ path = NoPath

AttrIdle ==
    /\ pt_mode = {}
    /\ block_attrs = {}
    /\ leaf0 = {}
    /\ prev_attrs = {}
    /\ table_attrs = {}
    /\ path = NoPath

\* attrs = arch_mm_mode_to_attrs(mode): a new leaf.
Translate(m) ==
    /\ path.n = 0
    /\ pt_mode' = m
    /\ block_attrs' = arch_mm_mode_to_attrs(m)
    /\ leaf0' = arch_mm_mode_to_attrs(m)
    /\ prev_attrs' = arch_mm_mode_to_attrs(m)
    /\ table_attrs' = {}
    /\ path' = [seen |-> {}, n |-> 0, from_mode |-> TRUE]
    /\ UNCHANGED <<mmVars, trampVars, cacheVars, callerVars>>

\* attrs = arch_mm_combine_table_entry_attrs(table_attrs, attrs): one more
\* ancestor on the way from the leaf's parent to the root.
Combine(t) ==
    /\ path.n < MaxPath
    /\ prev_attrs' = block_attrs
    /\ table_attrs' = t
    /\ block_attrs' = arch_mm_combine_table_entry_attrs(t, block_attrs)
    /\ path' = [path EXCEPT !.seen = @ \cup t, !.n = @ + 1]
    /\ UNCHANGED <<pt_mode, leaf0>>
    /\ UNCHANGED <<mmVars, trampVars, cacheVars, callerVars>>

AttrNext ==
    \/ \E m \in Modes : Translate(m)
    \/ \E t \in TableWords : Combine(t)

(***************************************************************************)
(* arch_mm_write_back_dcache.                                              *)
(***************************************************************************)
AddrSpace == 2 ^ AddrBits

\* The integer a word stands for.
ValueOf(w) == Field(w, 0, 15)

\* a & ~m
AndNot(a, m) == ValueOf(BitsOf(a) \ BitsOf(m))

\* uint16_t line_size = 1 << ((read_msr(CTR_EL0) >> 16) & 0xf);
LineSize(ctr) == (2 ^ Field(ctr, 16, 19)) % (2 ^ 16)

\* (uintptr_t)base & ~(line_size - 1)
LineBegin(base, line_size) == AndNot(base, line_size - 1)

\* (uintptr_t)base + size
RangeEnd(base, size) == (base + size) % AddrSpace

\* while (line_begin < end)
LoopCondition(lb, end) == lb < end

\* The loop runs for ever on some arguments; the model stops recording
\* after this many operations.
MaxOps == AddrSpace + 2

CtrValues == {Shl(f, 16) \cup Shl(o, 0) : f \in 0..MaxLineShift, o \in {4}}

CacheInit ==
    /\ ctr_el0 \in CtrValues
    /\ wb_base \in 0..(AddrSpace - 1)
    /\ wb_size \in 0..MaxSize
    /\ wb_pc = "idle"
    /\ line_begin = 0
    /\ wb_end = 0
    /\ dc_ops = <<>>
    /\ dsb_count = 0

CacheIdle ==
    /\ ctr_el0 = {}
    /\ wb_base = 0
    /\ wb_size = 0
    /\ wb_pc = "off"
    /\ line_begin = 0
    /\ wb_end = 0
    /\ dc_ops = <<>>
    /\ dsb_count = 0

\* Entry: the three locals are computed.
WriteBackEnter ==
    /\ wb_pc = "idle"
    /\ line_begin' = LineBegin(wb_base, LineSize(ctr_el0))
    /\ wb_end' = RangeEnd(wb_base, wb_size)
    /\ wb_pc' = "loop"
    /\ UNCHANGED <<ctr_el0, wb_base, wb_size, dc_ops, dsb_count>>
    /\ UNCHANGED <<mmVars, trampVars, attrVars, callerVars>>

\* One iteration: dc cvac, line_begin; line_begin += line_size.
CleanLine ==
    /\ wb_pc = "loop"
    /\ LoopCondition(line_begin, wb_end)
    /\ Len(dc_ops) < MaxOps
    /\ dc_ops' = Append(dc_ops, line_begin)
    /\ line_begin' = (line_begin + LineSize(ctr_el0)) % AddrSpace
    /\ UNCHANGED <<ctr_el0, wb_base, wb_size, wb_pc, wb_end, dsb_count>>
    /\ UNCHANGED <<mmVars, trampVars, attrVars, callerVars>>

\* The loop condition fails.
LoopExit ==
    /\ wb_pc = "loop"
    /\ ~LoopCondition(line_begin, wb_end)
    /\ wb_pc' = "dsb"
    /\ UNCHANGED <<ctr_el0, wb_base, wb_size, line_begin, wb_end, dc_ops,
                   dsb_count>>
    /\ UNCHANGED <<mmVars, trampVars, attrVars, callerVars>>

\* dsb sy, and return.
CompletionBarrier ==
    /\ wb_pc = "dsb"
    /\ dsb_count' = dsb_count + 1
    /\ wb_pc' = "done"
    /\ UNCHANGED <<ctr_el0, wb_base, wb_size, line_begin, wb_end, dc_ops>>
    /\ UNCHANGED <<mmVars, trampVars, attrVars, callerVars>>

CacheNext ==
    \/ WriteBackEnter
    \/ CleanLine
    \/ LoopExit
    \/ CompletionBarrier

(***************************************************************************)
(* The exception trampolines: the macros as instruction sequences.         *)
(* An instruction is [op, a, b, imm]: a and b are register numbers, imm    *)
(* the immediate.  The macros' elx parameter selects which exception       *)
(* level's elr/spsr is named; the model has one such pair.                 *)
(***************************************************************************)
Ins(op, a, b, imm) == [op |-> op, a |-> a, b |-> b, imm |-> imm]

\* The frame both macros use: #(8 * 24).
FrameBytes == 8 * 24

save_volatile_to_stack_AliasingMutant ==
    << Ins("stp_pre", 0, 1, -(8 * 24)),
       Ins("stp", 2, 3, 8 * 2),
       Ins("stp", 4, 5, 8 * 4),
       Ins("stp", 6, 7, 8 * 6),
       Ins("stp", 8, 9, 8 * 8),
       Ins("stp", 10, 11, 8 * 10),
       Ins("stp", 12, 13, 8 * 12),
       Ins("stp", 14, 15, 8 * 14),
       Ins("stp", 16, 17, 8 * 16),
       Ins("str", 18, 18, 8 * 18),
       Ins("stp", 29, 30, 8 * 20),
       Ins("mrs_elr", 0, 0, 0),
       Ins("mrs_spsr", 1, 1, 0),
       Ins("stp", 0, 1, 8 * 24) >>

save_volatile_to_stack_SwappedCaptureMutant ==
    << Ins("stp_pre", 0, 1, -(8 * 24)),
       Ins("stp", 2, 3, 8 * 2),
       Ins("stp", 4, 5, 8 * 4),
       Ins("stp", 6, 7, 8 * 6),
       Ins("stp", 8, 9, 8 * 8),
       Ins("stp", 10, 11, 8 * 10),
       Ins("stp", 12, 13, 8 * 12),
       Ins("stp", 14, 15, 8 * 14),
       Ins("stp", 16, 17, 8 * 16),
       Ins("str", 18, 18, 8 * 18),
       Ins("stp", 29, 30, 8 * 20),
       Ins("mrs_elr", 1, 1, 0),
       Ins("mrs_spsr", 0, 0, 0),
       Ins("stp", 1, 0, 8 * 22) >>

save_volatile_to_stack ==
    << Ins("stp_pre", 0, 1, -(8 * 24)),
       Ins("stp", 2, 3, 8 * 2),
       Ins("stp", 4, 5, 8 * 4),
       Ins("stp", 6, 7, 8 * 6),
       Ins("stp", 8, 9, 8 * 8),
       Ins("stp", 10, 11, 8 * 10),
       Ins("stp", 12, 13, 8 * 12),
       Ins("stp", 14, 15, 8 * 14),
       Ins("stp", 16, 17, 8 * 16),
       Ins("str", 18, 18, 8 * 18),
       Ins("stp", 29, 30, 8 * 20),
       Ins("mrs_elr", 0, 0, 0),
       Ins("mrs_spsr", 1, 1, 0),
       Ins("stp", 0, 1, 8 * 22) >>

restore_volatile_from_stack_WrongSlotMutant ==
    << Ins("ldp", 2, 3, 8 * 2),
       Ins("ldp", 4, 5, 8 * 4),
       Ins("ldp", 6, 7, 8 * 6),
       Ins("ldp", 8, 9, 8 * 8),
       Ins("ldp", 10, 11, 8 * 10),
       Ins("ldp", 12, 13, 8 * 12),
       Ins("ldp", 14, 15, 8 * 14),
       Ins("ldp", 16, 17, 8 * 16),
       Ins("ldr", 18, 18, 8 * 17),
       Ins("ldp", 29, 30, 8 * 20),
       Ins("ldp", 0, 1, 8 * 22),
       Ins("msr_elr", 0, 0, 0),
       Ins("msr_spsr", 1, 1, 0),
       Ins("ldp_post", 0, 1, 8 * 24) >>
restore_volatile_from_stack ==
    << Ins("ldp", 2, 3, 8 * 2),
       Ins("ldp", 4, 5, 8 * 4),
       Ins("ldp", 6, 7, 8 * 6),
       Ins("ldp", 8, 9, 8 * 8),
       Ins("ldp", 10, 11, 8 * 10),
       Ins("ldp", 12, 13, 8 * 12),
       Ins("ldp", 14, 15, 8 * 14),
       Ins("ldp", 16, 17, 8 * 16),
       Ins("ldr", 18, 18, 8 * 18),
       Ins("ldp", 29, 30, 8 * 20),
       Ins("ldp", 0, 1, 8 * 22),
       Ins("msr_elr", 0, 0, 0),
       Ins("msr_spsr", 1, 1, 0),
       Ins("ldp_post", 0, 1, 8 * 24) >>

\* Exceptions taken at the current EL while using SP0.
current_exception_sp0_SharedTailMutant ==
    << Ins("msr_spsel", 0, 0, 1) >>
    \o save_volatile_to_stack
    \o << Ins("bl", 0, 0, 0), Ins("b", 0, 0, 0) >>
current_exception_sp0 ==
    << Ins("msr_spsel", 0, 0, 1) >>
    \o save_volatile_to_stack
    \o << Ins("bl", 0, 0, 0) >>
    \o restore_volatile_from_stack
    \o << Ins("msr_spsel", 0, 0, 0), Ins("eret", 0, 0, 0) >>

\* Exceptions taken at the current EL while using SPx.
current_exception_spx ==
    save_volatile_to_stack \o << Ins("bl", 0, 0, 0), Ins("b", 0, 0, 0) >>

\* The shared tail current_exception_spx branches to: restore and return.
restore_from_stack_and_return ==
    restore_volatile_from_stack \o << Ins("eret", 0, 0, 0) >>

\* The code in memory; an address is an index into it.  The handler and the
\* interrupted code lie behind it.
Image ==
    current_exception_sp0 \o current_exception_spx
    \o restore_from_stack_and_return

Sp0Entry == 1
SpxEntry == Len(current_exception_sp0) + 1
TailEntry == Len(current_exception_sp0) + Len(current_exception_spx) + 1
HandlerAddr == Len(Image) + 1
UserPc == Len(Image) + 2

\* Addresses at which the running code can be interrupted.
UserPcs == {UserPc, UserPc + 1}

(***************************************************************************)
(* The exception stack and the machine state.                              *)
(***************************************************************************)
\* Bytes the handler pushes for itself in the model, and bytes already on
\* the exception stack when the first exception is taken.
HandlerBytes == 8 * 2
InitialUse == 8 * 4

StackBytes == StackFrames * (FrameBytes + HandlerBytes) + InitialUse

StackAddrs == {8 * k : k \in 0..((StackBytes \div 8) - 1)}

Regs == 0..30

\* Registers the procedure call standard lets a callee change.
CallerSaved == 0..18

\* The active stack pointer.
SP == IF spsel = 1 THEN sp_elx ELSE sp_el0

\* PSTATE as spsr holds it: the stack selector in bit 0, the flags above.
Pstate(sel, flags) == sel + 2 * flags

TrampInit ==
    /\ \E seed \in 0..MaxSeed : x = [i \in Regs |-> (i + 1) * (seed + 1)]
    /\ elr = 0
    /\ spsr = 0
    /\ sp_el0 = StackBytes + InitialUse
    /\ sp_elx = StackBytes - InitialUse
    /\ spsel \in {0, 1}
    /\ nzcv \in {0, 1}
    /\ tpc \in UserPcs
    /\ mem = [a \in StackAddrs |-> a + 1]
    /\ ctx = <<>>

TrampIdle ==
    /\ x = [i \in Regs |-> 0]
    /\ elr = 0
    /\ spsr = 0
    /\ sp_el0 = 0
    /\ sp_elx = 0
    /\ spsel = 0
    /\ nzcv = 0
    /\ tpc = 0
    /\ mem = [a \in StackAddrs |-> 0]
    /\ ctx = <<>>

InCode == tpc \in 1..Len(Image)

CurOp == Image[tpc].op

SetSP(v) ==
    IF spsel = 1
    THEN sp_elx' = v /\ UNCHANGED sp_el0
    ELSE sp_el0' = v /\ UNCHANGED sp_elx

OtherVars == <<mmVars, cacheVars, attrVars, callerVars>>

(***************************************************************************)
(* The instructions.                                                       *)
(***************************************************************************)
\* stp xa, xb, [sp, #imm]!  /  stp xa, xb, [sp, #imm]  /  str xa, [sp, #imm]
ExecStore ==
    /\ InCode
    /\ CurOp \in {"stp_pre", "stp", "str"}
    /\ LET i == Image[tpc]
           addr == SP + i.imm
       IN /\ addr \in StackAddrs
          /\ addr + 8 \in StackAddrs
          /\ mem' = IF i.op = "str"
                    THEN [mem EXCEPT ![addr] = x[i.a]]
                    ELSE [mem EXCEPT ![addr] = x[i.a], ![addr + 8] = x[i.b]]
          /\ IF i.op = "stp_pre"
             THEN SetSP(addr)
             ELSE UNCHANGED <<sp_el0, sp_elx>>
    /\ tpc' = tpc + 1
    /\ UNCHANGED <<x, elr, spsr, spsel, nzcv, ctx, OtherVars>>

\* ldp xa, xb, [sp, #imm]  /  ldr xa, [sp, #imm]  /  ldp xa, xb, [sp], #imm
ExecLoad ==
    /\ InCode
    /\ CurOp \in {"ldp", "ldr", "ldp_post"}
    /\ LET i == Image[tpc]
           addr == IF i.op = "ldp_post" THEN SP ELSE SP + i.imm
       IN /\ addr \in StackAddrs
          /\ addr + 8 \in StackAddrs
          /\ x' = IF i.op = "ldr"
                  THEN [x EXCEPT ![i.a] = mem[addr]]
                  ELSE [x EXCEPT ![i.a] = mem[addr], ![i.b] = mem[addr + 8]]
          /\ IF i.op = "ldp_post"
             THEN SetSP(SP + i.imm)
             ELSE UNCHANGED <<sp_el0, sp_elx>>
    /\ tpc' = tpc + 1
    /\ UNCHANGED <<elr, spsr, spsel, nzcv, mem, ctx, OtherVars>>

\* mrs xa, elr_elx  /  mrs xa, spsr_elx
ExecMrs ==
    /\ InCode
    /\ CurOp \in {"mrs_elr", "mrs_spsr"}
    /\ x' = [x EXCEPT ![Image[tpc].a] =
                IF CurOp = "mrs_elr" THEN elr ELSE spsr]
    /\ tpc' = tpc + 1
    /\ UNCHANGED <<elr, spsr, sp_el0, sp_elx, spsel, nzcv, mem, ctx,
                   OtherVars>>

\* msr elr_elx, xa  /  msr spsr_elx, xa
ExecMsr ==
    /\ InCode
    /\ CurOp \in {"msr_elr", "msr_spsr"}
    /\ IF CurOp = "msr_elr"
       THEN elr' = x[Image[tpc].a] /\ UNCHANGED spsr
       ELSE spsr' = x[Image[tpc].a] /\ UNCHANGED elr
    /\ tpc' = tpc + 1
    /\ UNCHANGED <<x, sp_el0, sp_elx, spsel, nzcv, mem, ctx, OtherVars>>

\* msr spsel, #imm
ExecSpsel ==
    /\ InCode
    /\ CurOp = "msr_spsel"
    /\ spsel' = Image[tpc].imm
    /\ tpc' = tpc + 1
    /\ UNCHANGED <<x, elr, spsr, sp_el0, sp_elx, nzcv, mem, ctx, OtherVars>>

\* bl handler
ExecBl ==
    /\ InCode
    /\ CurOp = "bl"
    /\ x' = [x EXCEPT ![30] = tpc + 1]
    /\ tpc' = HandlerAddr
    /\ UNCHANGED <<elr, spsr, sp_el0, sp_elx, spsel, nzcv, mem, ctx,
                   OtherVars>>

\* b restore_from_stack_and_return
ExecB ==
    /\ InCode
    /\ CurOp = "b"
    /\ tpc' = TailEntry
    /\ UNCHANGED <<x, elr, spsr, sp_el0, sp_elx, spsel, nzcv, mem, ctx,
                   OtherVars>>

\* eret: the hardware resumes at elr with PSTATE taken from spsr.
ExecEret ==
    /\ InCode
    /\ CurOp = "eret"
    /\ tpc' = elr
    /\ spsel' = spsr % 2
    /\ nzcv' = spsr \div 2
    /\ ctx' = IF ctx = <<>> THEN ctx ELSE SubSeq(ctx, 1, Len(ctx) - 1)
    /\ UNCHANGED <<x, elr, spsr, sp_el0, sp_elx, mem, OtherVars>>

(***************************************************************************)
(* The hardware taking an exception, and the handler the trampolines call. *)
(***************************************************************************)
\* What the hardware does on an exception to the current EL: the return
\* address and PSTATE go to elr and spsr, SPx is selected, and execution
\* continues at the vector for the stack that was in use.
ExceptionEntry ==
    /\ sp_elx - FrameBytes >= 0
    /\ elr' = tpc
    /\ spsr' = Pstate(spsel, nzcv)
    /\ spsel' = 1
    /\ tpc' = IF spsel = 0 THEN Sp0Entry ELSE SpxEntry
    /\ ctx' = Append(ctx, [x |-> x, sp_el0 |-> sp_el0, sp_elx |-> sp_elx,
                           spsel |-> spsel, nzcv |-> nzcv, pc |-> tpc,
                           hpush |-> 0, worked |-> FALSE, nested |-> FALSE])
    /\ UNCHANGED <<x, sp_el0, sp_elx, nzcv, mem, OtherVars>>

\* An exception interrupts the running code.
TakeException ==
    /\ tpc \in UserPcs
    /\ ExceptionEntry

\* A further exception is taken inside the handler, at most once in one
\* run of the handler.
NestedException ==
    /\ tpc = HandlerAddr
    /\ ctx # <<>>
    /\ ~ctx[Len(ctx)].nested
    /\ sp_elx - FrameBytes >= 0
    /\ elr' = tpc
    /\ spsr' = Pstate(spsel, nzcv)
    /\ spsel' = 1
    /\ tpc' = IF spsel = 0 THEN Sp0Entry ELSE SpxEntry
    /\ ctx' = Append([ctx EXCEPT ![Len(ctx)].nested = TRUE],
                     [x |-> x, sp_el0 |-> sp_el0, sp_elx |-> sp_elx,
                      spsel |-> spsel, nzcv |-> nzcv, pc |-> tpc,
                      hpush |-> 0, worked |-> FALSE, nested |-> FALSE])
    /\ UNCHANGED <<x, sp_el0, sp_elx, nzcv, mem, OtherVars>>

\* The handler computes: it changes the registers a callee may change and
\* the flags, and pushes a frame of its own below the trampoline's.
HandlerWork ==
    /\ tpc = HandlerAddr
    /\ ctx # <<>>
    /\ ~ctx[Len(ctx)].worked
    /\ SP - HandlerBytes \in StackAddrs
    /\ x' = [i \in Regs |-> IF i \in CallerSaved THEN HandlerAddr ELSE x[i]]
    /\ nzcv' = 1 - (nzcv % 2)
    /\ SetSP(SP - HandlerBytes)
    /\ mem' = [mem EXCEPT ![SP - HandlerBytes] = HandlerAddr,
                          ![SP - HandlerBytes + 8] = HandlerAddr]
    /\ ctx' = [ctx EXCEPT ![Len(ctx)].hpush = 1, ![Len(ctx)].worked = TRUE]
    /\ UNCHANGED <<elr, spsr, spsel, tpc, OtherVars>>

\* The handler pops its frame and returns to the address in x30, its stack
\* pointer as it found it.
HandlerReturn ==
    /\ tpc = HandlerAddr
    /\ ctx # <<>>
    /\ IF ctx[Len(ctx)].hpush = 1
       THEN SetSP(SP + HandlerBytes)
       ELSE UNCHANGED <<sp_el0, sp_elx>>
    /\ ctx' = [ctx EXCEPT ![Len(ctx)].hpush = 0]
    /\ tpc' = x[30]
    /\ UNCHANGED <<x, elr, spsr, spsel, nzcv, mem, OtherVars>>

TrampNext ==
    \/ TakeException
    \/ NestedException
    \/ HandlerWork
    \/ HandlerReturn
    \/ ExecStore
    \/ ExecLoad
    \/ ExecMrs
    \/ ExecMsr
    \/ ExecSpsel
    \/ ExecBl
    \/ ExecB
    \/ ExecEret

(***************************************************************************)
(* arch_mm_init: the steps of one core.                                    *)
(***************************************************************************)
MmInit ==
    /\ id_aa64mmfr0_el1 \in FeatureValues
    /\ hyp_table \in Tables
    /\ mm_s2_max_level = 0
    /\ mm_s2_root_table_count = 0
    /\ mm_pc = [c \in Cores |-> "idle"]
    /\ mm_local = [c \in Cores |-> NoLocal]
    /\ sysreg = [c \in Cores |-> [r \in SysRegs |-> {}]]
    /\ mm_events = [c \in Cores |-> <<>>]
    /\ mm_ret = [c \in Cores |-> "none"]

Emit(c, e) == mm_events' = [mm_events EXCEPT ![c] = Append(@, e)]

\* Entry: features = read_msr(id_aa64mmfr0_el1); pa_bits = table lookup.
\* Only the first core is passed first = true.
ArchMmInitEnter(c) ==
    /\ mm_pc[c] = "idle"
    /\ mm_local' = [mm_local EXCEPT ![c] =
                       [pa_bits |-> PaBits(id_aa64mmfr0_el1), sl0 |-> 0,
                        extend_bits |-> 0, first |-> (c = 1)]]
    /\ mm_pc' = [mm_pc EXCEPT ![c] = "granule"]
    /\ UNCHANGED <<trampVars, cacheVars, attrVars, callerVars>>
    /\ UNCHANGED <<id_aa64mmfr0_el1, hyp_table, mm_s2_max_level,
                   mm_s2_root_table_count, sysreg, mm_events, mm_ret>>

\* Check that 4KB granules are supported.
CheckGranule(c) ==
    /\ mm_pc[c] = "granule"
    /\ IF GranuleUnsupported(id_aa64mmfr0_el1)
       THEN /\ Emit(c, "dlog")
            /\ mm_ret' = [mm_ret EXCEPT ![c] = "false"]
            /\ mm_pc' = [mm_pc EXCEPT ![c] = "done"]
       ELSE /\ mm_pc' = [mm_pc EXCEPT ![c] = "parange"]
            /\ UNCHANGED <<mm_events, mm_ret>>
    /\ UNCHANGED <<trampVars, cacheVars, attrVars, callerVars>>
    /\ UNCHANGED <<id_aa64mmfr0_el1, hyp_table, mm_s2_max_level,
                   mm_s2_root_table_count, mm_local, sysreg>>

\* Check the physical address range; the first core logs the width.
CheckPaRange(c) ==
    /\ mm_pc[c] = "parange"
    /\ IF PaRangeUnsupported(mm_local[c].pa_bits)
       THEN /\ Emit(c, "dlog")
            /\ mm_ret' = [mm_ret EXCEPT ![c] = "false"]
            /\ mm_pc' = [mm_pc EXCEPT ![c] = "done"]
       ELSE /\ mm_pc' = [mm_pc EXCEPT ![c] = "level"]
            /\ IF mm_local[c].first
               THEN Emit(c, "dlog")
               ELSE UNCHANGED mm_events
            /\ UNCHANGED mm_ret
    /\ UNCHANGED <<trampVars, cacheVars, attrVars, callerVars>>
    /\ UNCHANGED <<id_aa64mmfr0_el1, hyp_table, mm_s2_max_level,
                   mm_s2_root_table_count, mm_local, sysreg>>

\* sl0 and the store to the shared mm_s2_max_level.  The two statics are
\* single bytes written with plain stores and no lock: a store by one core
\* takes effect as a whole, in some order with the stores of the others.
SetMaxLevel(c) ==
    /\ mm_pc[c] = "level"
    /\ mm_local' = [mm_local EXCEPT ![c].sl0 = Sl0For(mm_local[c].pa_bits)]
    /\ mm_s2_max_level' = MaxLevelFor(mm_local[c].pa_bits)
    /\ mm_pc' = [mm_pc EXCEPT ![c] = "extend"]
    /\ UNCHANGED <<trampVars, cacheVars, attrVars, callerVars>>
    /\ UNCHANGED <<id_aa64mmfr0_el1, hyp_table, mm_s2_root_table_count,
                   sysreg, mm_events, mm_ret>>

\* extend_bits and the store to the shared mm_s2_root_table_count; the
\* first core logs the geometry.
SetRootTableCountAccumulateMutant(c) ==
    /\ mm_pc[c] = "extend"
    /\ mm_local' = [mm_local EXCEPT
                       ![c].extend_bits = ExtendBits(mm_local[c].pa_bits)]
    /\ mm_s2_root_table_count' =
           (mm_s2_root_table_count + 2 ^ ExtendBits(mm_local[c].pa_bits)) % 256
    /\ mm_pc' = [mm_pc EXCEPT ![c] = InitOrder[1]]
    /\ IF mm_local[c].first THEN Emit(c, "dlog") ELSE UNCHANGED mm_events
    /\ UNCHANGED <<trampVars, cacheVars, attrVars, callerVars>>
    /\ UNCHANGED <<id_aa64mmfr0_el1, hyp_table, mm_s2_max_level, sysreg,
                   mm_ret>>
SetRootTableCount(c) ==
    /\ mm_pc[c] = "extend"
    /\ mm_local' = [mm_local EXCEPT
                       ![c].extend_bits = ExtendBits(mm_local[c].pa_bits)]
    /\ mm_s2_root_table_count' = 2 ^ ExtendBits(mm_local[c].pa_bits)
    /\ mm_pc' = [mm_pc EXCEPT ![c] = InitOrder[1]]
    /\ IF mm_local[c].first THEN Emit(c, "dlog") ELSE UNCHANGED mm_events
    /\ UNCHANGED <<trampVars, cacheVars, attrVars, callerVars>>
    /\ UNCHANGED <<id_aa64mmfr0_el1, hyp_table, mm_s2_max_level, sysreg,
                   mm_ret>>

\* write_msr(reg, value), then on to the next step.
WriteMsr(c, label, reg, value) ==
    /\ mm_pc[c] = label
    /\ sysreg' = [sysreg EXCEPT ![c][reg] = value]
    /\ Emit(c, reg)
    /\ mm_pc' = [mm_pc EXCEPT ![c] = NextLabel(label)]
    /\ UNCHANGED <<trampVars, cacheVars, attrVars, callerVars>>
    /\ UNCHANGED <<id_aa64mmfr0_el1, hyp_table, mm_s2_max_level,
                   mm_s2_root_table_count, mm_local, mm_ret>>

\* A barrier instruction, then on to the next step.
Barrier(c, label, kind) ==
    /\ mm_pc[c] = label
    /\ Emit(c, kind)
    /\ mm_pc' = [mm_pc EXCEPT ![c] = NextLabel(label)]
    /\ UNCHANGED <<trampVars, cacheVars, attrVars, callerVars>>
    /\ UNCHANGED <<id_aa64mmfr0_el1, hyp_table, mm_s2_max_level,
                   mm_s2_root_table_count, mm_local, sysreg, mm_ret>>

WriteVtcr(c) ==
    WriteMsr(c, "vtcr", "vtcr_el2",
             VtcrValue(id_aa64mmfr0_el1, mm_local[c].sl0, mm_local[c].pa_bits))

WriteMair(c) == WriteMsr(c, "mair", "mair_el2", MairValue)

\* write_msr(ttbr0_el2, pa_addr(table));
WriteTtbr0(c) == WriteMsr(c, "ttbr0", "ttbr0_el2", hyp_table)

WriteTcr(c) == WriteMsr(c, "tcr", "tcr_el2", TcrValue(id_aa64mmfr0_el1))

DsbSy(c) == Barrier(c, "dsb", "dsb")

IsbBefore(c) == Barrier(c, "isb", "isb")

WriteSctlr(c) == WriteMsr(c, "sctlr", "sctlr_el2", SctlrValue)

IsbAfter(c) == Barrier(c, "isb2", "isb")

\* return true;
ReturnTrue(c) ==
    /\ mm_pc[c] = "return"
    /\ mm_ret' = [mm_ret EXCEPT ![c] = "true"]
    /\ mm_pc' = [mm_pc EXCEPT ![c] = "done"]
    /\ UNCHANGED <<trampVars, cacheVars, attrVars, callerVars>>
    /\ UNCHANGED <<id_aa64mmfr0_el1, hyp_table, mm_s2_max_level,
                   mm_s2_root_table_count, mm_local, sysreg, mm_events>>

MmNext ==
    \E c \in Cores :
        \/ ArchMmInitEnter(c)
        \/ CheckGranule(c)
        \/ CheckPaRange(c)
        \/ SetMaxLevel(c)
        \/ SetRootTableCount(c)
        \/ WriteVtcr(c)
        \/ WriteMair(c)
        \/ WriteTtbr0(c)
        \/ WriteTcr(c)
        \/ DsbSy(c)
        \/ IsbBefore(c)
        \/ WriteSctlr(c)
        \/ IsbAfter(c)
        \/ ReturnTrue(c)

(***************************************************************************)
(* Callers of the translator during bring-up: a core that is not inside    *)
(* arch_mm_init translates a mode, while the other cores are wherever they *)
(* are.                                                                    *)
(***************************************************************************)
\* The modes translated: one of each regime.
CallerModes == {{"R", "W", "X"}, {"STAGE1", "R", "W"}}

CallerInit ==
    /\ caller_mode \in CallerModes
    /\ caller_words = {}
    /\ caller_levels = {}

CallerIdle ==
    /\ caller_mode = {}
    /\ caller_words = {}
    /\ caller_levels = {}

\* attrs = arch_mm_mode_to_attrs(mode) on core c.
TranslateCall(c) ==
    /\ mm_pc[c] \in {"idle", "done"}
    /\ caller_words' = caller_words \cup {arch_mm_mode_to_attrs(caller_mode)}
    /\ caller_levels' = caller_levels \cup {mm_s2_max_level}
    /\ UNCHANGED <<mmVars, trampVars, cacheVars, attrVars, caller_mode>>

CallerNext ==
    \/ MmNext
    \/ \E c \in Cores : TranslateCall(c)

(***************************************************************************)
(* Bring-up: properties.                                                   *)
(***************************************************************************)
Succeeded(c) == mm_ret[c] = "true"

SupportedWidths == {32, 36, 40, 42, 44, 48}

\* The register and barrier events of a core, without its log lines.
HwEvents(c) == SelectSeq(mm_events[c], LAMBDA e : e # "dlog")

IsPrefix(s, t) == Len(s) <= Len(t) /\ \A i \in 1..Len(s) : s[i] = t[i]

\* C1: after a successful arch_mm_init on a supported width, max-level is
\* 3 / 2 / 1 for width >= 44 / >= 35 / below, the SL0 field (bits 6-7) of
\* the value programmed into vtcr_el2 is 2 / 1 / 0 respectively, and the
\* root-table count is 2^e with e = (width - 12) mod 9 replaced by 0 when it
\* exceeds 4; width 44 gives (3, 1), width 48 gives (3, 1), width 40 (2, 2).
C1_Geometry ==
    \A c \in Cores :
        Succeeded(c) =>
            LET w == pa_bits_table[Field(id_aa64mmfr0_el1, 0, 3) + 1]
                e == (w - 12) % 9
                lvl == IF w >= 44 THEN 3 ELSE IF w >= 35 THEN 2 ELSE 1
            IN /\ w \in SupportedWidths
               /\ mm_s2_max_level = lvl
               /\ Field(sysreg[c]["vtcr_el2"], 6, 7) = lvl - 1
               /\ mm_s2_root_table_count = 2 ^ (IF e > 4 THEN 0 ELSE e)
               /\ w = 44 => mm_s2_max_level = 3 /\ mm_s2_root_table_count = 1
               /\ w = 48 => mm_s2_max_level = 3 /\ mm_s2_root_table_count = 1
               /\ w = 40 => mm_s2_max_level = 2 /\ mm_s2_root_table_count = 2

\* Some core has completed bring-up on a 44-bit machine, where extend_bits
\* is clamped from 5 to 0.
C1_Witness ==
    \E c \in Cores :
        /\ Succeeded(c)
        /\ mm_local[c].pa_bits = 44
        /\ mm_s2_root_table_count = 1

\* The feature register reports no 4KB granule (bits 28-31 non-zero) or
\* selects an unpopulated entry of the width table (bits 0-3 in 6..15).
BadFeatures ==
    \/ Field(id_aa64mmfr0_el1, 28, 31) # 0
    \/ Field(id_aa64mmfr0_el1, 0, 3) \in 6..15

\* C2: with such a feature register every arch_mm_init returns failure and
\* leaves no partial state: no system register has been written, the MMU
\* enable bit is clear, and max-level and root-count keep the values they
\* had before the call.
C2_FailureLeavesNoState ==
    BadFeatures =>
        /\ mm_s2_max_level = 0
        /\ mm_s2_root_table_count = 0
        /\ \A c \in Cores :
              /\ mm_ret[c] # "true"
              /\ mm_pc[c] = "done" => mm_ret[c] = "false"
              /\ mm_pc[c] \in {"idle", "granule", "parange", "done"}
              /\ \A r \in SysRegs : sysreg[c][r] = {}
              /\ 0 \notin sysreg[c]["sctlr_el2"]
              /\ HwEvents(c) = <<>>

\* A core has returned failure because of the address-size field alone: the
\* granule is supported and the field selects an unpopulated entry.
C2_Witness ==
    /\ \E c \in Cores : mm_pc[c] = "done" /\ mm_ret[c] = "false"
    /\ Field(id_aa64mmfr0_el1, 28, 31) = 0
    /\ Field(id_aa64mmfr0_el1, 0, 3) \in 6..15

\* C5: cores running arch_mm_init in any interleaving, all reading the same
\* feature register, end with the max-level and root-count of a single-core
\* run, and once one core has completed successfully no step of another
\* core changes what arch_mm_max_level and arch_mm_root_table_count return
\* for Stage-2.
C5_Converges ==
    /\ [](\A c \in Cores :
            Succeeded(c) =>
                /\ arch_mm_max_level({}) = MaxLevelFor(PaBits(id_aa64mmfr0_el1))
                /\ arch_mm_root_table_count({}) =
                       2 ^ ExtendBits(PaBits(id_aa64mmfr0_el1)))
    /\ [][(\E c \in Cores : Succeeded(c)) =>
            /\ arch_mm_max_level({})' = arch_mm_max_level({})
            /\ arch_mm_root_table_count({})' = arch_mm_root_table_count({})]_vars

\* One core has completed while another is between its two stores to the
\* shared variables, on a machine whose root-table count is not 1.
C5_Witness ==
    \E c, d \in Cores :
        /\ Succeeded(c)
        /\ mm_pc[d] = "extend"
        /\ mm_s2_root_table_count > 1

\* C6: the register and barrier events of a core are always a prefix of
\* vtcr_el2, mair_el2, ttbr0_el2, tcr_el2, dsb, isb, sctlr_el2, isb; the
\* MMU enable bit is set only after the first six; and a core that has
\* returned success has issued all eight.
EnableOrder ==
    <<"vtcr_el2", "mair_el2", "ttbr0_el2", "tcr_el2", "dsb", "isb",
      "sctlr_el2", "isb">>

C6_EnableOrder ==
    \A c \in Cores :
        /\ IsPrefix(HwEvents(c), EnableOrder)
        /\ 0 \in sysreg[c]["sctlr_el2"] => Len(HwEvents(c)) >= 7
        /\ Succeeded(c) => HwEvents(c) = EnableOrder

\* A core has written sctlr_el2 and not yet issued the final barrier.
C6_Witness ==
    \E c \in Cores :
        /\ mm_pc[c] = "isb2"
        /\ 0 \in sysreg[c]["sctlr_el2"]
        /\ Len(HwEvents(c)) = 7


(***************************************************************************)
(* Trampolines: properties.                                                *)
(***************************************************************************)
\* The exception being handled, innermost.
Top == ctx[Len(ctx)]

\* The address of the eret that ends current_exception_sp0.
Sp0Eret == Sp0Entry + Len(current_exception_sp0) - 1

AtEret == InCode /\ CurOp = "eret"

\* The machine is as it was when the exception recorded in c was taken,
\* with elr and spsr as the hardware set them on entry.
Restored(c) ==
    /\ x = c.x
    /\ elr = c.pc
    /\ spsr = Pstate(c.spsel, c.nzcv)
    /\ sp_el0 = c.sp_el0
    /\ sp_elx = c.sp_elx

\* C3: in the own-stack shape, after the switch to the exception stack, the
\* save, a handler that took no further exception, the restore and the
\* switch back, every register x0..x30, elr, spsr and both stack pointers
\* equal their values at entry, the selected stack is the original one, and
\* the 192 bytes are released.
C3_RoundTrip ==
    (tpc = Sp0Eret /\ ctx # <<>> /\ ~Top.nested) =>
        /\ Restored(Top)
        /\ spsel = Top.spsel
        /\ SP = Top.sp_el0

\* The own-stack trampoline stands at its eret after a handler that changed
\* the caller-saved registers, the flags and the stack below the frame.
C3_Witness ==
    /\ tpc = Sp0Eret
    /\ ctx # <<>>
    /\ ~Top.nested
    /\ Top.worked
    /\ mem[sp_elx - FrameBytes - HandlerBytes] = HandlerAddr
    /\ x = Top.x

\* Exception k is inside its handler: its save has completed and its
\* restore has not begun.
InHandler(k) == k < Len(ctx) \/ tpc = HandlerAddr

\* The frame of exception k holds what its save stored.
FrameBase(k) == ctx[k].sp_elx - FrameBytes

FrameHolds(k) ==
    /\ \A i \in 0..18 : mem[FrameBase(k) + 8 * i] = ctx[k].x[i]
    /\ mem[FrameBase(k) + 8 * 20] = ctx[k].x[29]
    /\ mem[FrameBase(k) + 8 * 21] = ctx[k].x[30]
    /\ mem[FrameBase(k) + 8 * 22] = ctx[k].pc
    /\ mem[FrameBase(k) + 8 * 23] = Pstate(ctx[k].spsel, ctx[k].nzcv)

\* C4: the frame of a nested exception lies wholly below every live outer
\* frame; while an exception is inside its handler, whatever is nested in
\* it, its frame holds the registers, return address and saved state it
\* stored; and an exception whose handler took a nested exception reaches
\* its eret with the registers, elr and spsr of its own entry.
C4_NestedFrames ==
    /\ \A j, k \in 1..Len(ctx) :
          j < k => FrameBase(k) + FrameBytes <= FrameBase(j)
    /\ \A k \in 1..Len(ctx) : InHandler(k) => FrameHolds(k)
    /\ (AtEret /\ ctx # <<>> /\ Top.nested) => Restored(Top)

\* An outer exception stands at its eret after a nested exception was
\* taken, handled and returned from inside its handler.
C4_Witness ==
    /\ AtEret
    /\ Len(ctx) = 1
    /\ Top.nested
    /\ Top.worked
    /\ Restored(Top)

\* The trampoline is at its bl, or the handler has just been entered: it
\* has changed nothing yet and no exception has interrupted it.
AtHandlerCall ==
    /\ ctx # <<>>
    /\ \/ InCode /\ CurOp = "bl"
       \/ tpc = HandlerAddr /\ ~Top.worked /\ ~Top.nested

\* The addresses of the two bl instructions.
Sp0Call == Sp0Entry + 1 + Len(save_volatile_to_stack)
SpxCall == SpxEntry + Len(save_volatile_to_stack)

\* The trampoline is between its entry and its call of the handler.
InPrologue ==
    /\ ctx # <<>>
    /\ tpc \in (Sp0Entry..Sp0Call) \cup (SpxEntry..SpxCall)

\* The instruction about to run lies after a capturing instruction op and
\* at or before the next bl: it runs between the capture and the call.
BetweenCaptureAndCall(op) ==
    /\ InCode
    /\ \E q \in 1..(tpc - 1) :
          /\ Image[q].op = op
          /\ \A r \in q..(tpc - 1) : Image[r].op # "bl"

\* C16: in both shapes, when the handler is called x0 holds the return
\* address and x1 the saved state the hardware set at trap entry; slots 0 and
\* 1 of the frame hold the pre-trap x0 and x1, and did so before x0 and x1
\* were overwritten; slots 22 and 23 hold the same return address and state;
\* and no instruction between the capture and the call changes x0 or x1.
C16_HandlerArguments ==
    /\ [](AtHandlerCall =>
            LET base == FrameBase(Len(ctx))
            IN /\ x[0] = Top.pc
               /\ x[1] = Pstate(Top.spsel, Top.nzcv)
               /\ mem[base] = Top.x[0]
               /\ mem[base + 8] = Top.x[1]
               /\ mem[base + 8 * 22] = Top.pc
               /\ mem[base + 8 * 23] = Pstate(Top.spsel, Top.nzcv))
    /\ [](InPrologue =>
            /\ x[0] # Top.x[0] => mem[FrameBase(Len(ctx))] = Top.x[0]
            /\ x[1] # Top.x[1] => mem[FrameBase(Len(ctx)) + 8] = Top.x[1])
    /\ [][/\ BetweenCaptureAndCall("mrs_elr") => x'[0] = x[0]
          /\ BetweenCaptureAndCall("mrs_spsr") => x'[1] = x[1]]_vars

\* The own-stack trampoline has called its handler, an exception was taken
\* inside it, and the current-stack trampoline has just called the handler
\* for that one; the return address in x0 differs from the pre-trap x0.
C16_Witness ==
    /\ Len(ctx) = 2
    /\ ctx[1].spsel = 0
    /\ AtHandlerCall
    /\ tpc = HandlerAddr
    /\ x[0] = HandlerAddr
    /\ Top.x[0] # HandlerAddr

\* Instructions in one exception-vector slot: 0x80 bytes of 4-byte
\* instructions.
VectorSlot == 32

\* The instruction about to run belongs to the own-stack trampoline.
InSp0 == tpc \in Sp0Entry..Sp0Eret

\* C18: the save and the restore are 14 instructions each, the own-stack
\* trampoline is at most 32 and the current-stack trampoline 16; every
\* instruction of the own-stack trampoline but its bl and its eret passes
\* control to the next one, the bl to the handler with the next address
\* as return address; and an own-stack invocation whose handler returns
\* reaches its eret.
C18_Budget ==
    /\ [](/\ Len(save_volatile_to_stack) = 14
          /\ Len(restore_volatile_from_stack) = 14
          /\ Len(current_exception_sp0) <= VectorSlot
          /\ Len(current_exception_spx) = 16)
    /\ [][InSp0 =>
            /\ CurOp \notin {"bl", "eret"} => tpc' = tpc + 1
            /\ CurOp = "bl" => tpc' = HandlerAddr /\ x'[30] = tpc + 1]_vars
    /\ (tpc = Sp0Entry) ~> (tpc = Sp0Eret)

\* An own-stack invocation stands at its eret after its handler ran and
\* returned.
C18_Witness ==
    /\ tpc = Sp0Eret
    /\ Len(ctx) = 1
    /\ Top.spsel = 0
    /\ Top.worked

(***************************************************************************)
(* Cache maintenance: properties.                                          *)
(***************************************************************************)
\* C7: with a length of 0, whatever the base and the line size, no line is
\* cleaned, the loop is left at its first test, and the completion barrier
\* is issued exactly once.
C7_ZeroLength ==
    wb_size = 0 =>
        /\ dc_ops = <<>>
        /\ wb_pc = "loop" => ~(line_begin < wb_end)
        /\ wb_pc = "done" => dsb_count = 1
        /\ wb_pc # "done" => dsb_count = 0

\* The lines that intersect [base, base + size), by their first address.
LinesOf(base, size, ls) ==
    {a \in 0..(AddrSpace - 1) :
        a % ls = 0 /\ a < base + size /\ a + ls > base}

\* C17: for a length greater than 0 with base + length inside the address
\* space, whatever the line size: the lines cleaned so far start at base
\* rounded down, ascend by one line each, and all intersect the range; on
\* return every line that intersects the range has been cleaned exactly
\* once; the barrier is issued once, after the last clean; and the loop is
\* left after at most as many iterations as there are such lines.
C17_CoversRange ==
    (wb_size > 0 /\ wb_base + wb_size < AddrSpace) =>
        LET ls == LineSize(ctr_el0)
            lines == LinesOf(wb_base, wb_size, ls)
        IN /\ \A i \in 1..Len(dc_ops) :
                  /\ dc_ops[i] = (wb_base - (wb_base % ls)) + (i - 1) * ls
                  /\ dc_ops[i] \in lines
           /\ Len(dc_ops) <= Cardinality(lines)
           /\ wb_pc \in {"dsb", "done"} =>
                  {dc_ops[i] : i \in 1..Len(dc_ops)} = lines
           /\ wb_pc = "done" => dsb_count = 1
           /\ wb_pc # "done" => dsb_count = 0

(***************************************************************************)
(* Translator and combiner: properties.                                    *)
(***************************************************************************)
Stage2Modes == SUBSET {"R", "W", "X", "D"}

\* The leaf attributes are the translation of pt_mode, not yet combined.
FreshFromMode == path.from_mode /\ path.n = 0

\* C8: for a Stage-2 mode, in the word arch_mm_mode_to_attrs returns bit 6
\* is set iff readable, bit 7 iff writable, bits 53-54 are 0 iff executable
\* and 2 otherwise, and bits 2-5 take one value for device and another for
\* normal memory, so the four flags are recovered from the word.
C8_Stage2RoundTrip ==
    (FreshFromMode /\ "STAGE1" \notin pt_mode) =>
        /\ 6 \in block_attrs <=> "R" \in pt_mode
        /\ 7 \in block_attrs <=> "W" \in pt_mode
        /\ Field(block_attrs, 53, 54) = IF "X" \in pt_mode THEN 0 ELSE 2
        /\ \A m \in Stage2Modes :
              (Field(block_attrs, 2, 5) = Field(arch_mm_mode_to_attrs(m), 2, 5))
                  <=> ("D" \in m <=> "D" \in pt_mode)

\* A readable, not writable, not executable device mode has been translated.
C8_Witness ==
    /\ FreshFromMode
    /\ pt_mode = {"R", "D"}
    /\ 6 \in block_attrs
    /\ 7 \notin block_attrs

\* C9: once an ancestor with table bit 60 has been combined in, the leaf
\* attributes have bit 54 set, whatever was combined before or after.
C9_XnSticks ==
    60 \in path.seen => 54 \in block_attrs

\* A leaf that started executable has passed an ancestor with bit 60 and
\* then one without it.
C9_Witness ==
    /\ path.n >= 2
    /\ 60 \in path.seen
    /\ 60 \notin table_attrs
    /\ 54 \notin leaf0
    /\ 54 \in block_attrs

\* The leaf bits that restrict when set.
RestrictingBits == {5, 7, 53, 54}

\* C10: after one call with table attributes t on leaf attributes b giving
\* r: bit 63 of t puts bit 5 in r; bit 62 (no writes) puts the read-only
\* bit 7 in r, and bit 61 (no unprivileged access) takes bit 6 out of r, so
\* that neither leaves the write permission it restricts; bit 60 puts bit
\* 54 in r and bit 59 bit 53; every restriction of b is still in r, and no
\* other bit differs.
C10_OnlyRestricts ==
    path.n >= 1 =>
        LET t == table_attrs
            b == prev_attrs
            r == block_attrs
        IN /\ 63 \in t => 5 \in r
           /\ 62 \in t => 7 \in r
           /\ 61 \in t => 6 \notin r
           /\ 60 \in t => 54 \in r
           /\ 59 \in t => 53 \in r
           /\ (b \cap RestrictingBits) \subseteq r
           /\ 6 \notin b => 6 \notin r
           /\ r \ (RestrictingBits \cup {6}) = b \ (RestrictingBits \cup {6})

\* Both access-permission table bits were applied to a leaf that was
\* writable and accessible to unprivileged code.
C10_Witness ==
    /\ path.n >= 1
    /\ {61, 62} \subseteq table_attrs
    /\ 6 \in prev_attrs
    /\ 7 \notin prev_attrs
    /\ 7 \in block_attrs
    /\ 6 \notin block_attrs

\* The override bits of a table descriptor.
OverrideBits == 59..63

\* C13: a call of arch_mm_combine_table_entry_attrs whose table attributes
\* carry none of bits 59..63, as those of every Stage-2 table descriptor,
\* returns the leaf attributes it was given, bit for bit.
C13_Stage2NoOp ==
    (path.n >= 1 /\ table_attrs \cap OverrideBits = {}) =>
        block_attrs = prev_attrs

\* The attributes of a readable and writable Stage-2 mode have been combined
\* with two table descriptors, neither carrying an override bit, the last
\* one with its type bits set.
C13_Witness ==
    /\ path.from_mode
    /\ {"R", "W"} \subseteq pt_mode
    /\ "STAGE1" \notin pt_mode
    /\ path.n = 2
    /\ path.seen \cap OverrideBits = {}
    /\ table_attrs = {0, 1}

\* C15: for a mode with the Stage-1 selector, the word returned by
\* arch_mm_mode_to_attrs has bit 10 set and bits 8-9 equal to 2; bit 54 set
\* iff the mode is not executable; bits 6-7 equal to 0 if writable and 2
\* otherwise; bits 2-3 equal to 0 for device and 1 for normal memory; no
\* other bit set; and the same word with or without the readable flag.
C15_Stage1Word ==
    (FreshFromMode /\ "STAGE1" \in pt_mode) =>
        /\ 10 \in block_attrs
        /\ Field(block_attrs, 8, 9) = 2
        /\ 54 \in block_attrs <=> "X" \notin pt_mode
        /\ Field(block_attrs, 6, 7) = IF "W" \in pt_mode THEN 0 ELSE 2
        /\ Field(block_attrs, 2, 3) = IF "D" \in pt_mode THEN 0 ELSE 1
        /\ block_attrs \subseteq {2, 3, 6, 7, 8, 9, 10, 54}
        /\ block_attrs = arch_mm_mode_to_attrs(pt_mode \ {"R"})
        /\ block_attrs = arch_mm_mode_to_attrs(pt_mode \cup {"R"})

\* A Stage-1 mode for writable device memory that is neither readable nor
\* executable has been translated.
C15_Witness ==
    /\ FreshFromMode
    /\ pt_mode = {"STAGE1", "W", "D"}
    /\ 54 \in block_attrs

\* C20: with b the attributes before the last call, t its table attributes
\* and r its result: combining t again gives r (idempotent); for every
\* table word u, combining u after t equals combining t after u and equals
\* one call with t OR u (order-independent); and r is what one call with
\* the OR of all table attributes on the path so far makes of the leaf's
\* first attributes, whatever their order and number.
C20_Algebra ==
    path.n >= 1 =>
        /\ arch_mm_combine_table_entry_attrs(table_attrs, block_attrs)
               = block_attrs
        /\ \A u \in TableWords :
              LET ut == arch_mm_combine_table_entry_attrs(u, block_attrs)
              IN /\ ut = arch_mm_combine_table_entry_attrs(table_attrs,
                             arch_mm_combine_table_entry_attrs(u, prev_attrs))
                 /\ ut = arch_mm_combine_table_entry_attrs(
                             u \cup table_attrs, prev_attrs)
        /\ block_attrs = arch_mm_combine_table_entry_attrs(path.seen, leaf0)

\* Two ancestors with different override bits have been combined into a
\* leaf, each changing it.
C20_Witness ==
    /\ path.n = 2
    /\ table_attrs \cap OverrideBits # {}
    /\ (path.seen \ table_attrs) \cap OverrideBits # {}
    /\ block_attrs # prev_attrs
    /\ prev_attrs # leaf0

(***************************************************************************)
(* The level/root-count oracle: properties.                                *)
(***************************************************************************)
RootCounts == {1, 2, 4, 8, 16}

\* The core is past the store to mm_s2_root_table_count.
PastExtend(c) ==
    \/ mm_pc[c] \in {InitOrder[i] : i \in 1..Len(InitOrder)} \cup {"return"}
    \/ Succeeded(c)

\* C11 as stated: in every reachable state and for either regime the level
\* returned by arch_mm_max_level is in 0..3 and the count returned by
\* arch_mm_root_table_count is one of 1, 2, 4, 8, 16.
C11_RangesInEveryState ==
    \A m \in Modes :
        /\ arch_mm_max_level(m) \in 0..3
        /\ arch_mm_root_table_count(m) \in RootCounts

\* C11 amended: the level is in 0..3 in every state; the count is one of
\* 1, 2, 4, 8, 16 for Stage-1 in every state and for Stage-2 from the moment a
\* core has stored it, and is the zero-initialised 0 for Stage-2 until then.
C11_Ranges ==
    \A m \in Modes :
        /\ arch_mm_max_level(m) \in 0..3
        /\ IF "STAGE1" \in m \/ \E c \in Cores : PastExtend(c)
           THEN arch_mm_root_table_count(m) \in RootCounts
           ELSE arch_mm_root_table_count(m) = 0

\* A core has completed bring-up on a 42-bit machine, where the oracle
\* answers level 2 and 8 root tables for Stage-2.
C11_Witness ==
    /\ \E c \in Cores : Succeeded(c)
    /\ arch_mm_max_level({"R"}) = 2
    /\ arch_mm_root_table_count({"R"}) = 8

\* The core is past the store to mm_s2_max_level.
PastLevel(c) == mm_pc[c] = "extend" \/ PastExtend(c)

\* C14: for a mode with the Stage-1 selector the oracle answers level 2 and
\* one root table in every state, whether bring-up has not started, is
\* under way, has succeeded or has failed; for a Stage-2 mode it answers
\* what arch_mm_init derived from the address width once a core has stored
\* it, and the zero-initialised 0 until then, for the level and for the
\* count separately.
C14_OracleLookup ==
    \A m \in Modes :
        IF "STAGE1" \in m
        THEN /\ arch_mm_max_level(m) = 2
             /\ arch_mm_root_table_count(m) = 1
        ELSE /\ \A c \in Cores :
                   PastLevel(c) =>
                       arch_mm_max_level(m) = MaxLevelFor(mm_local[c].pa_bits)
             /\ (\A c \in Cores : ~PastLevel(c)) => arch_mm_max_level(m) = 0
             /\ \A c \in Cores :
                   PastExtend(c) =>
                       arch_mm_root_table_count(m) =
                           2 ^ ExtendBits(mm_local[c].pa_bits)
             /\ (\A c \in Cores : ~PastExtend(c)) =>
                    arch_mm_root_table_count(m) = 0

\* Bring-up has completed on a 40-bit machine while another core has not
\* started: Stage-2 answers level 2 and two root tables, Stage-1 level 2
\* and one.
C14_Witness ==
    /\ \E c, d \in Cores : Succeeded(c) /\ mm_pc[d] = "idle"
    /\ arch_mm_root_table_count({"R"}) = 2
    /\ arch_mm_max_level({"R"}) = 2
    /\ arch_mm_root_table_count({"STAGE1", "R"}) = 1

\* C19: after a successful arch_mm_init, with L = max-level + 1 levels of
\* 9 bits over 12-bit pages and a root count of 2^k, the tables span at
\* least the reported width: k + 12 + 9 * L >= pa_bits (that is, root-count *
\* 2^(12 + 9L) >= 2^pa_bits, compared by exponent); they span it exactly
\* when (pa_bits - 12) mod 9 was not clamped; and the core's vtcr_el2 has
\* SL0 (bits 6-7) equal to max-level - 1 and T0SZ (bits 0-5) equal to
\* 64 - pa_bits.
C19_GeometryCoversWidth ==
    \A c \in Cores :
        Succeeded(c) =>
            LET w == PaBits(id_aa64mmfr0_el1)
                L == mm_s2_max_level + 1
                ks == {k \in 0..7 : 2 ^ k = mm_s2_root_table_count}
            IN /\ w \in SupportedWidths
               /\ ks # {}
               /\ \A k \in ks :
                     /\ k + 12 + 9 * L >= w
                     /\ (w - 12) % 9 <= 4 => k + 12 + 9 * L = w
               /\ Field(sysreg[c]["vtcr_el2"], 6, 7) = mm_s2_max_level - 1
               /\ Field(sysreg[c]["vtcr_el2"], 0, 5) = 64 - w

\* Bring-up has completed on a 36-bit machine, where extend_bits was clamped
\* from 6 to 0 and three levels under one root table span 39 bits.
C19_Witness ==
    /\ \E c \in Cores : Succeeded(c) /\ mm_local[c].pa_bits = 36
    /\ mm_s2_max_level = 2
    /\ mm_s2_root_table_count = 1

(***************************************************************************)
(* The translator under concurrent bring-up: properties.                   *)
(***************************************************************************)
\* C12: all calls of arch_mm_mode_to_attrs with the same mode return the
\* same word, whatever the cores have done to the Stage-2 geometry between
\* them, and a call changes nothing the cores share: not the geometry, not a
\* system register.
C12_Pure ==
    /\ [](Cardinality(caller_words) <= 1)
    /\ [][caller_words' # caller_words \/ caller_levels' # caller_levels
            => UNCHANGED mmVars]_vars

\* A Stage-2 mode has been translated both before the geometry was derived
\* and after, and bring-up has completed on some core.
C12_Witness ==
    /\ "STAGE1" \notin caller_mode
    /\ Cardinality(caller_levels) = 2
    /\ caller_words # {}
    /\ \E c \in Cores : Succeeded(c)

(***************************************************************************)
(* Specifications: one per part of the program, the other parts at rest.   *)
(***************************************************************************)
MmIdle ==
    /\ id_aa64mmfr0_el1 = {}
    /\ hyp_table = {}
    /\ mm_s2_max_level = 0
    /\ mm_s2_root_table_count = 0
    /\ mm_pc = [c \in Cores |-> "off"]
    /\ mm_local = [c \in Cores |-> NoLocal]
    /\ sysreg = [c \in Cores |-> [r \in SysRegs |-> {}]]
    /\ mm_events = [c \in Cores |-> <<>>]
    /\ mm_ret = [c \in Cores |-> "none"]

\* Bring-up on every core.
Init == MmInit /\ TrampIdle /\ CacheIdle /\ AttrIdle /\ CallerIdle

Next == MmNext

Spec == Init /\ [][Next]_vars

\* The exception trampolines.
InitTramp == MmIdle /\ TrampInit /\ CacheIdle /\ AttrIdle /\ CallerIdle

SpecTramp == InitTramp /\ [][TrampNext]_vars

\* The same, with a processor that executes the instruction it is at and a
\* handler that returns.
ExecInstruction ==
    \/ ExecStore
    \/ ExecLoad
    \/ ExecMrs
    \/ ExecMsr
    \/ ExecSpsel
    \/ ExecBl
    \/ ExecB
    \/ ExecEret

SpecTrampFair ==
    SpecTramp /\ WF_vars(ExecInstruction) /\ WF_vars(HandlerReturn)

\* Cache maintenance.
InitCache == MmIdle /\ TrampIdle /\ CacheInit /\ AttrIdle /\ CallerIdle

SpecCache == InitCache /\ [][CacheNext]_vars

\* The attribute translator and combiner.
InitAttr == MmIdle /\ TrampIdle /\ CacheIdle /\ AttrInit /\ CallerIdle

SpecAttr == InitAttr /\ [][AttrNext]_vars

\* Bring-up on every core, with callers of the translator.
InitCallers == MmInit /\ TrampIdle /\ CacheIdle /\ AttrIdle /\ CallerInit

SpecCallers == InitCallers /\ [][CallerNext]_vars

====
